---- MODULE Spec2Model ----
(***************************************************************************)
(* Bounded conversational memory of the custom-ai-agents guide:            *)
(*   advanced_agent/memory/{base,simple,file}_memory.py                    *)
(*   advanced_agent/core/agent.py  (AdvancedAgent over a memory backend)   *)
(*   template/agent.py             (TemplateAgent, its own list + file)    *)
(* One behaviour follows ONE object (kind) with one capacity N and, for    *)
(* the file-backed kinds, one memory file.                                 *)
(***************************************************************************)
EXTENDS Integers, Sequences, FiniteSets, TLC

\* ---------------------------------------------------------------- bounds
MaxN == 3          \* capacities 1..MaxN are explored
MaxAdds == 3       \* add_message calls per behaviour
MaxFaults == 1     \* failing file writes per behaviour

\* ---------------------------------------------------------------- inputs
ValidRoles == {"system", "user", "assistant"}
\* a text (a str) is the sequence of its words
SystemPrompt == <<"P">>
Contents == {SystemPrompt, <<"x">>}
Msg(r, c) == [role |-> r, content |-> c]
\* the add_message arguments explored
Messages == {Msg("system", SystemPrompt), Msg("system", <<"x">>), Msg("user", <<"x">>),
             Msg("assistant", <<"x">>)}
NoMsg == Msg("none", <<>>)
\* add_message arguments whose role is none of system / user / assistant
InvalidMessages == {Msg("tool", <<"x">>)}
SysMsg == Msg("system", SystemPrompt)
Kinds == {"simple", "file", "template"}
\* outcome of open(filename,'w') + json.dump: the write goes through, open()
\* itself fails (file untouched), or the dump fails after open() truncated it
WriteOutcomes == {"ok", "open_fail", "write_fail"}

VARIABLES
    kind,       \* which class the behaviour follows
    N,          \* max_messages / config.max_memory_messages
    messages,   \* self.messages
    file,       \* the memory file on disk: [st, data]
    pure,       \* history: the log was empty at its last reset and grew by add_message only
    added,      \* history: while pure, the messages passed to add_message since that reset
    nadds,      \* history: number of add_message calls so far
    nfaults,    \* history: number of file writes that failed so far
    simple,     \* SpecPair: self.messages of the SimpleMemory driven next to the FileMemory
    tools,      \* AdvancedAgent: the names of the registered tools (keys of self.tools)
    op          \* history: the last operation, its argument and outcome

vars == <<kind, N, messages, file, added, pure, nadds, nfaults, tools, simple, op>>

\* ------------------------------------------------------- python helpers
Min(a, b) == IF a < b THEN a ELSE b
Last(s) == s[Len(s)]
\* s[-k:] for k >= 0.  Python reads -0 as 0, so s[-0:] is the WHOLE list.
PyLast(s, k) ==
    IF k = 0 THEN s
    ELSE SubSeq(s, Len(s) - Min(k, Len(s)) + 1, Len(s))
\* the most recent k elements (what "s[-k:]" is meant to be), for k >= 0
Recent(s, k) == SubSeq(s, Len(s) - Min(k, Len(s)) + 1, Len(s))

\* ------------------------------------------------------------ json file
\* json.dump writes each dict as an object of key/value pairs, in list order
json_dump(msgs) ==
    [i \in 1..Len(msgs) |-> << <<"role", msgs[i].role>>, <<"content", msgs[i].content>> >>]
\* variant: the list rebuilt back to front
json_load_reversed(data) ==
    [i \in 1..Len(data) |-> [role |-> data[Len(data) + 1 - i][1][2],
                             content |-> data[Len(data) + 1 - i][2][2]]]
\* json.load rebuilds a list of dicts from the objects
json_load(data) ==
    [i \in 1..Len(data) |-> [role |-> data[i][1][2], content |-> data[i][2][2]]]
MissingFile == [st |-> "missing", data |-> <<>>]
CorruptFile == [st |-> "corrupt", data |-> <<>>]
OkFile(msgs) == [st |-> "ok", data |-> json_dump(msgs)]
\* with open(filename, 'w') as f: json.dump(messages, f, indent=2)
FileWrite(f, msgs, w) ==
    CASE w = "ok" -> OkFile(msgs)
      [] w = "open_fail" -> f
      [] OTHER -> CorruptFile

\* logs left on disk by an earlier session (possibly run with a larger capacity)
OldLog == << SysMsg, Msg("user", <<"x">>), Msg("assistant", <<"x">>),
             Msg("user", <<"P">>), Msg("assistant", <<"P">>) >>
OldLogNoSystem == << Msg("user", <<"x">>), Msg("assistant", <<"x">>), Msg("user", <<"P">>),
                     Msg("assistant", <<"P">>), Msg("user", <<"x">>) >>
InitFiles == {MissingFile, CorruptFile, OkFile(OldLog), OkFile(OldLogNoSystem)}

\* ------------------------------------------------------------ BaseMemory
\* variant: a plain sliding window that does not pin the system message
BaseMemory_truncate_messages_unpinned(msgs, n) ==
    IF Len(msgs) <= n THEN msgs ELSE PyLast(msgs, n)
\* variant: messages[:n] instead of messages[-n:] when there is no system message
BaseMemory_truncate_messages_head(msgs, n) ==
    IF Len(msgs) <= n THEN msgs
    ELSE IF Len(msgs) > 0 /\ msgs[1].role = "system"
         THEN <<msgs[1]>> \o PyLast(msgs, n - 1)
         ELSE SubSeq(msgs, 1, n)
\* variant: one message too few is kept when there is no system message
BaseMemory_truncate_messages_short(msgs, n) ==
    IF Len(msgs) <= n THEN msgs
    ELSE IF Len(msgs) > 0 /\ msgs[1].role = "system"
         THEN <<msgs[1]>> \o PyLast(msgs, n - 1)
         ELSE PyLast(msgs, n - 1)
\* _truncate_messages(messages) with self.max_messages = n
BaseMemory_truncate_messages(msgs, n) ==
    IF Len(msgs) <= n THEN msgs
    ELSE IF Len(msgs) > 0 /\ msgs[1].role = "system"
         THEN <<msgs[1]>> \o PyLast(msgs, n - 1)
         ELSE PyLast(msgs, n)

\* ------------------------------------------------------------ FileMemory
\* variant: save() without its try/except
FileMemory_save_uncaught(f, msgs, w) ==
    [file |-> FileWrite(f, msgs, w), raised |-> (w # "ok")]
\* variant: save() that returns without writing
FileMemory_save_skip(f, msgs, w) == [file |-> f, raised |-> FALSE]
\* save(): try: write; except Exception: log.  [file, raised]
FileMemory_save(f, msgs, w) == [file |-> FileWrite(f, msgs, w), raised |-> FALSE]
\* variant: only FileNotFoundError is caught (as SimpleAgent.load_memory does)
FileMemory_load_missing_only(f, msgs) ==
    CASE f.st = "ok" -> [messages |-> json_load(f.data), raised |-> FALSE]
      [] f.st = "missing" -> [messages |-> <<>>, raised |-> FALSE]
      [] OTHER -> [messages |-> msgs, raised |-> TRUE]
\* variant: a failed load() that leaves self.messages alone (as TemplateAgent does)
FileMemory_load_keep(f, msgs) ==
    IF f.st = "ok"
    THEN [messages |-> json_load(f.data), raised |-> FALSE]
    ELSE [messages |-> msgs, raised |-> FALSE]
\* variant: load() that cuts the loaded list down to max_messages
FileMemory_load_truncated(f, msgs) ==
    IF f.st = "ok"
    THEN [messages |-> BaseMemory_truncate_messages(json_load(f.data), N),
          raised |-> FALSE]
    ELSE [messages |-> <<>>, raised |-> FALSE]
\* load(): the list in the file; FileNotFoundError and every other Exception
\* are caught and reset the list to [].  [messages, raised]
FileMemory_load(f, msgs) ==
    IF f.st = "ok"
    THEN [messages |-> json_load(f.data), raised |-> FALSE]
    ELSE [messages |-> <<>>, raised |-> FALSE]

\* --------------------------------------------------------- TemplateAgent
\* variant: recent_messages = messages[-max:] (one too many next to the system message)
TemplateAgent_truncate_memory_off_by_one(msgs, n) ==
    IF Len(msgs) > n
    THEN IF msgs[1].role = "system"
         THEN <<msgs[1]>> \o PyLast(msgs, n)
         ELSE PyLast(msgs, n)
    ELSE msgs
\* variant: recent_messages = messages[:max-1] (the oldest instead of the newest)
TemplateAgent_truncate_memory_head(msgs, n) ==
    IF Len(msgs) > n
    THEN IF msgs[1].role = "system"
         THEN <<msgs[1]>> \o SubSeq(msgs, 1, n - 1)
         ELSE SubSeq(msgs, 1, n - 1)
    ELSE msgs
\* _truncate_memory() on self.messages with config.max_memory_messages = n
TemplateAgent_truncate_memory(msgs, n) ==
    IF Len(msgs) > n
    THEN IF msgs[1].role = "system"
         THEN <<msgs[1]>> \o PyLast(msgs, n - 1)
         ELSE PyLast(msgs, n - 1)
    ELSE msgs
TemplateAgent_save(f, msgs, w) == [file |-> FileWrite(f, msgs, w), raised |-> FALSE]
\* variant: a failed load empties the list, as FileMemory.load does
TemplateAgent_load_reset(f, msgs) ==
    IF f.st = "ok"
    THEN [messages |-> json_load(f.data), raised |-> FALSE]
    ELSE [messages |-> <<>>, raised |-> FALSE]
\* variant: a successful load extends the list instead of replacing it
TemplateAgent_load_merge(f, msgs) ==
    IF f.st = "ok"
    THEN [messages |-> msgs \o json_load(f.data), raised |-> FALSE]
    ELSE [messages |-> msgs, raised |-> FALSE]
\* load_memory(): replaces the list only when the file parses
TemplateAgent_load(f, msgs) ==
    IF f.st = "ok"
    THEN [messages |-> json_load(f.data), raised |-> FALSE]
    ELSE [messages |-> msgs, raised |-> FALSE]

\* the number of failing writes among the outcomes ws
Faults(ws) == Cardinality({i \in DOMAIN ws : ws[i] \in {"open_fail", "write_fail"}})
\* the environment lets the writes ws happen (at most MaxFaults failures in all)
Env(ws) == /\ nfaults + Faults(ws) <= MaxFaults
           /\ nfaults' = nfaults + Faults(ws)

\* afterSave: a load() that directly follows a successful save()
\* before: for the loading operations, len(self.messages) when they were called
\* for chat(): model is the outcome of the model call ("ok" / "error"), sent the
\* messages of the request, reply the text the model answered, ret what chat()
\* returned
Op(name, m, w, r) ==
    [name |-> name, msg |-> m, w |-> w, raised |-> r, afterSave |-> FALSE,
     before |-> 0, model |-> "none", sent |-> <<>>, reply |-> <<>>, ret |-> <<>>]

\* ---------------------------------------------------------------- Init
\* the state right after the constructor
Init ==
    /\ kind \in Kinds
    /\ N \in 1..MaxN
    /\ file \in (IF kind = "simple" THEN {MissingFile} ELSE InitFiles)
    /\ messages = CASE kind = "simple" -> <<>>
                    [] kind = "file" -> FileMemory_load(file, <<>>).messages
                    [] OTHER -> TemplateAgent_load(file,
                                   TemplateAgent_truncate_memory(<<SysMsg>>, N)).messages
    /\ added = IF kind = "template" /\ file.st # "ok" THEN <<SysMsg>> ELSE <<>>
    /\ pure = (file.st # "ok" \/ messages = <<>>)
    /\ nadds = 0
    /\ nfaults = 0
    /\ tools = {}
    /\ simple = <<>>
    /\ op = Op("init", NoMsg, "none",
               CASE kind = "simple" -> FALSE
                 [] kind = "file" -> FileMemory_load(file, <<>>).raised
                 [] OTHER -> TemplateAgent_load(file, <<SysMsg>>).raised)

\* ---------------------------------------------------------- SimpleMemory
SimpleMemory_add_message(m) ==
    /\ kind = "simple"
    /\ nadds < MaxAdds
    /\ messages' = BaseMemory_truncate_messages(Append(messages, m), N)
    /\ added' = IF pure THEN Append(added, m) ELSE <<>>
    /\ nadds' = nadds + 1
    /\ op' = Op("add_message", m, "none", FALSE)
    /\ UNCHANGED <<kind, N, simple, tools, file, pure, nfaults>>

SimpleMemory_clear ==
    /\ kind = "simple"
    /\ messages' = <<>>
    /\ added' = <<>>
    /\ pure' = TRUE
    /\ op' = Op("clear", NoMsg, "none", FALSE)
    /\ UNCHANGED <<kind, N, simple, tools, file, nadds, nfaults>>

\* save() and load() are no-ops
SimpleMemory_save ==
    /\ kind = "simple"
    /\ op' = Op("save", NoMsg, "none", FALSE)
    /\ UNCHANGED <<kind, N, simple, tools, messages, file, added, pure, nadds, nfaults>>

SimpleMemory_load ==
    /\ kind = "simple"
    /\ op' = Op("load", NoMsg, "none", FALSE)
    /\ UNCHANGED <<kind, N, simple, tools, messages, file, added, pure, nadds, nfaults>>

\* ------------------------------------------------------------ FileMemory
FileMemory_add_message(m, w) ==
    /\ kind = "file"
    /\ nadds < MaxAdds
    /\ LET msgs == BaseMemory_truncate_messages(Append(messages, m), N)
           s == FileMemory_save(file, msgs, w)
       IN /\ messages' = msgs
          /\ file' = s.file
          /\ op' = Op("add_message", m, w, s.raised)
    /\ added' = IF pure THEN Append(added, m) ELSE <<>>
    /\ nadds' = nadds + 1
    /\ UNCHANGED <<kind, N, simple, tools, pure>>
    /\ Env(<<w>>)

FileMemory_clear(w) ==
    /\ kind = "file"
    /\ LET s == FileMemory_save(file, <<>>, w)
       IN /\ messages' = <<>>
          /\ file' = s.file
          /\ op' = Op("clear", NoMsg, w, s.raised)
    /\ added' = <<>>
    /\ pure' = TRUE
    /\ UNCHANGED <<kind, N, simple, tools, nadds>>
    /\ Env(<<w>>)

FileMemory_save_op(w) ==
    /\ kind = "file"
    /\ LET s == FileMemory_save(file, messages, w)
       IN /\ file' = s.file
          /\ op' = Op("save", NoMsg, w, s.raised)
    /\ UNCHANGED <<kind, N, simple, tools, messages, added, pure, nadds>>
    /\ Env(<<w>>)

\* load(), also what constructing a new FileMemory on the same file does
FileMemory_load_op ==
    /\ kind = "file"
    /\ LET l == FileMemory_load(file, messages)
       IN /\ messages' = l.messages
          /\ op' = [Op("load", NoMsg, "none", l.raised) EXCEPT
                      !.afterSave = (op.name = "save" /\ op.w = "ok"),
                      !.before = Len(messages)]
    /\ added' = <<>>
    /\ pure' = (messages' = <<>>)
    /\ UNCHANGED <<kind, N, simple, tools, file, nadds, nfaults>>

\* --------------------------------------------------------- AdvancedAgent
\* memory.add_message / memory.clear of the configured backend: [messages, file, raised]
Memory_add_message(msgs, f, m, w) ==
    LET t == BaseMemory_truncate_messages(Append(msgs, m), N)
        s == FileMemory_save(f, t, w)
    IN IF kind = "file"
       THEN [messages |-> t, file |-> s.file, raised |-> s.raised]
       ELSE [messages |-> t, file |-> f, raised |-> FALSE]
\* variant: clear() that saves an empty list but keeps self.messages
Memory_clear_keep(f, w) ==
    LET s == FileMemory_save(f, <<>>, w)
    IN IF kind = "file"
       THEN [messages |-> messages, file |-> s.file, raised |-> s.raised]
       ELSE [messages |-> messages, file |-> f, raised |-> FALSE]
Memory_clear(f, w) ==
    LET s == FileMemory_save(f, <<>>, w)
    IN IF kind = "file"
       THEN [messages |-> <<>>, file |-> s.file, raised |-> s.raised]
       ELSE [messages |-> <<>>, file |-> f, raised |-> FALSE]
\* the write outcomes a backend can meet: SimpleMemory never writes
BackendOutcomes == IF kind = "file" THEN WriteOutcomes ELSE {"none"}

\* variant: the constructor adds the system prompt whatever was loaded
AdvancedAgent_init_always(w) ==
    /\ kind \in {"simple", "file"}
    /\ w \in BackendOutcomes
    /\ LET loaded == IF kind = "file" THEN FileMemory_load(file, <<>>).messages ELSE <<>>
           r == Memory_add_message(loaded, file, SysMsg, w)
       IN IF loaded = loaded
          THEN /\ messages' = r.messages
               /\ file' = r.file
               /\ added' = <<SysMsg>>
               /\ pure' = TRUE
               /\ op' = Op("agent_init", SysMsg, w, r.raised)
               /\ Env(<<w>>)
          ELSE /\ messages' = loaded
               /\ file' = file
               /\ added' = <<>>
               /\ pure' = FALSE
               /\ op' = Op("agent_init", NoMsg, "none", FALSE)
               /\ w \in {"ok", "none"}
               /\ nfaults' = nfaults
    /\ tools' = {}
    /\ UNCHANGED <<kind, N, simple, nadds>>

\* AdvancedAgent(config): build the backend, add the system prompt to an empty log
AdvancedAgent_init(w) ==
    /\ kind \in {"simple", "file"}
    /\ w \in BackendOutcomes
    /\ LET loaded == IF kind = "file" THEN FileMemory_load(file, <<>>).messages ELSE <<>>
           r == Memory_add_message(loaded, file, SysMsg, w)
       IN IF loaded = <<>>
          THEN /\ messages' = r.messages
               /\ file' = r.file
               /\ added' = <<SysMsg>>
               /\ pure' = TRUE
               /\ op' = Op("agent_init", SysMsg, w, r.raised)
               /\ Env(<<w>>)
          ELSE /\ messages' = loaded
               /\ file' = file
               /\ added' = <<>>
               /\ pure' = FALSE
               /\ op' = Op("agent_init", NoMsg, "none", FALSE)
               /\ w \in {"ok", "none"}
               /\ nfaults' = nfaults
    /\ tools' = {}
    /\ UNCHANGED <<kind, N, simple, nadds>>

\* clear_memory(): memory.clear(); memory.add_message("system", system_prompt)
AdvancedAgent_clear_memory(w1, w2) ==
    /\ kind \in {"simple", "file"}
    /\ w1 \in BackendOutcomes
    /\ w2 \in BackendOutcomes
    /\ LET c == Memory_clear(file, w1)
           r == Memory_add_message(c.messages, c.file, SysMsg, w2)
       IN /\ messages' = r.messages
          /\ file' = r.file
          /\ op' = Op("clear_memory", SysMsg, w2, c.raised \/ r.raised)
    /\ added' = <<SysMsg>>
    /\ pure' = TRUE
    /\ UNCHANGED <<kind, N, simple, tools, nadds>>
    /\ Env(<<w1, w2>>)

\* load_state(): memory.load() (a no-op on SimpleMemory)
AdvancedAgent_load_state ==
    /\ kind \in {"simple", "file"}
    /\ LET l == IF kind = "file" THEN FileMemory_load(file, messages)
                ELSE [messages |-> messages, raised |-> FALSE]
       IN /\ messages' = l.messages
          /\ op' = [Op("load_state", NoMsg, "none", l.raised) EXCEPT
                      !.before = Len(messages)]
    /\ added' = IF kind = "file" THEN <<>> ELSE added
    /\ pure' = IF kind = "file" THEN messages' = <<>> ELSE pure
    /\ UNCHANGED <<kind, N, simple, tools, file, nadds, nfaults>>

\* --------------------------------------------------------- TemplateAgent
\* TemplateAgent(config): add the system prompt, then load_memory()
TemplateAgent_init ==
    /\ kind = "template"
    /\ LET l == TemplateAgent_load(file, TemplateAgent_truncate_memory(<<SysMsg>>, N))
       IN /\ messages' = l.messages
          /\ op' = Op("init", NoMsg, "none", l.raised)
    /\ added' = IF file.st = "ok" THEN <<>> ELSE <<SysMsg>>
    /\ pure' = (file.st # "ok" \/ messages' = <<>>)
    /\ UNCHANGED <<kind, N, simple, tools, file, nadds, nfaults>>

\* variant: add_message() that also writes the memory file
TemplateAgent_add_message_saving(m) ==
    /\ kind = "template"
    /\ nadds < MaxAdds
    /\ messages' = TemplateAgent_truncate_memory(Append(messages, m), N)
    /\ added' = IF pure THEN Append(added, m) ELSE <<>>
    /\ nadds' = nadds + 1
    /\ op' = Op("add_message", m, "none", FALSE)
    /\ file' = OkFile(messages')
    /\ UNCHANGED <<kind, N, simple, tools, pure, nfaults>>
\* add_message(role, content): append, _truncate_memory(); no write
TemplateAgent_add_message(m) ==
    /\ kind = "template"
    /\ nadds < MaxAdds
    /\ messages' = TemplateAgent_truncate_memory(Append(messages, m), N)
    /\ added' = IF pure THEN Append(added, m) ELSE <<>>
    /\ nadds' = nadds + 1
    /\ op' = Op("add_message", m, "none", FALSE)
    /\ UNCHANGED <<kind, N, simple, tools, file, pure, nfaults>>

TemplateAgent_save_memory(w) ==
    /\ kind = "template"
    /\ LET s == TemplateAgent_save(file, messages, w)
       IN /\ file' = s.file
          /\ op' = Op("save_memory", NoMsg, w, s.raised)
    /\ UNCHANGED <<kind, N, simple, tools, messages, added, pure, nadds>>
    /\ Env(<<w>>)

TemplateAgent_load_memory ==
    /\ kind = "template"
    /\ LET l == TemplateAgent_load(file, messages)
       IN /\ messages' = l.messages
          /\ op' = [Op("load_memory", NoMsg, "none", l.raised) EXCEPT
                      !.before = Len(messages)]
    /\ added' = IF file.st = "ok" THEN <<>> ELSE added
    /\ pure' = IF file.st = "ok" THEN messages' = <<>> ELSE pure
    /\ UNCHANGED <<kind, N, simple, tools, file, nadds, nfaults>>

\* clear_memory(): the list becomes [system prompt]; save_memory()
TemplateAgent_clear_memory(w) ==
    /\ kind = "template"
    /\ LET msgs == <<Msg("system", SystemPrompt)>>
           s == TemplateAgent_save(file, msgs, w)
       IN /\ messages' = msgs
          /\ file' = s.file
          /\ op' = Op("clear_memory", NoMsg, w, s.raised)
    /\ added' = <<SysMsg>>
    /\ pure' = TRUE
    /\ UNCHANGED <<kind, N, simple, tools, nadds>>
    /\ Env(<<w>>)

Next ==
    \/ \E m \in Messages : SimpleMemory_add_message(m)
    \/ SimpleMemory_clear
    \/ SimpleMemory_save
    \/ SimpleMemory_load
    \/ \E m \in Messages, w \in WriteOutcomes : FileMemory_add_message(m, w)
    \/ \E w \in WriteOutcomes : FileMemory_clear(w)
    \/ \E w \in WriteOutcomes : FileMemory_save_op(w)
    \/ FileMemory_load_op
    \/ \E w \in WriteOutcomes \cup {"none"} : AdvancedAgent_init(w)
    \/ \E w1, w2 \in WriteOutcomes \cup {"none"} : AdvancedAgent_clear_memory(w1, w2)
    \/ AdvancedAgent_load_state
    \/ TemplateAgent_init
    \/ \E m \in Messages : TemplateAgent_add_message(m)
    \/ \E w \in WriteOutcomes : TemplateAgent_save_memory(w)
    \/ TemplateAgent_load_memory
    \/ \E w \in WriteOutcomes : TemplateAgent_clear_memory(w)

Spec == Init /\ [][Next]_vars

\* callers that also pass roles outside system / user / assistant
NextAnyRole ==
    \/ Next
    \/ \E m \in InvalidMessages : SimpleMemory_add_message(m)
    \/ \E m \in InvalidMessages, w \in WriteOutcomes : FileMemory_add_message(m, w)
    \/ \E m \in InvalidMessages : TemplateAgent_add_message(m)

SpecAnyRole == Init /\ [][NextAnyRole]_vars

\* ------------------------------------------------- callers of get_messages
\* get_messages() / get_conversation_history(): self.messages.copy() is a new
\* list that holds the SAME dict objects; element i of the returned list is a
\* reference to the dict at self.messages[i]
get_messages(msgs) == [i \in 1..Len(msgs) |-> i]
\* d["content"] = c through a reference returned by get_messages
WriteThrough(msgs, ref, c) ==
    IF ref \in 1..Len(msgs) THEN [msgs EXCEPT ![ref].content = c] ELSE msgs

\* the caller appends to / removes from / replaces an element of the returned list
Caller_change_list ==
    /\ LET returned == get_messages(messages)
       IN /\ messages' = messages
          /\ op' = [Op("caller_list", NoMsg, "none", FALSE) EXCEPT !.before = Len(returned)]
    /\ UNCHANGED <<kind, N, simple, tools, file, added, pure, nadds, nfaults>>

\* the caller sets the content of the i-th returned message (once per run, on
\* a log that this run built with add_message)
Caller_change_message(i, c) ==
    /\ pure
    /\ LET returned == get_messages(messages)
       IN /\ i \in 1..Len(returned)
          /\ messages' = WriteThrough(messages, returned[i], c)
          /\ op' = [Op("caller_message", NoMsg, "none", FALSE) EXCEPT !.before = Len(returned)]
    /\ added' = <<>>
    /\ pure' = FALSE
    /\ UNCHANGED <<kind, N, simple, tools, file, nadds, nfaults>>

\* indexes into a log that MaxAdds calls of add_message can build
Positions == 1..(2 * MaxAdds + 1)

\* a program that adds messages and reads them back with get_messages
NextCaller ==
    \/ \E m \in Messages : SimpleMemory_add_message(m)
    \/ \E m \in Messages, w \in WriteOutcomes : FileMemory_add_message(m, w)
    \/ \E m \in Messages : TemplateAgent_add_message(m)
    \/ Caller_change_list
    \/ \E i \in Positions, c \in Contents : Caller_change_message(i, c)

SpecCaller == Init /\ [][NextCaller]_vars

\* ------------------------------------------------------------------ chat
\* the user inputs and the model's answers explored
UserInputs == {<<"x">>}
Replies == {<<"x">>, <<"tool:", "calculator">>}
ModelOutcomes == [status : {"ok"}, reply : Replies] \cup {[status |-> "error", reply |-> <<>>]}
\* names of the tools main.py registers (CalculatorTool, WebSearchTool)
ToolNames == {"calculator", "web_search"}
\* config.enable_tools (default)
enable_tools == TRUE

\* str.upper() of a word, and of a text
Upper(w) ==
    CASE w = "tool:" -> "TOOL:"
      [] w = "calculator" -> "CALCULATOR"
      [] w = "web_search" -> "WEB_SEARCH"
      [] w = "x" -> "X"
      [] OTHER -> w
upper(text) == [i \in 1..Len(text) |-> Upper(text[i])]
\* "w in text"
Contains(text, w) == \E i \in 1..Len(text) : text[i] = w
tool_indicators == {"TOOL:", "CALL:", "EXECUTE:", "USE_TOOL:"}
\* tool.execute({}): both tools answer an empty parameter dict with an error text
execute(t) ==
    IF t = "calculator"
    THEN <<"Error:", "No", "expression", "provided">>
    ELSE <<"Error:", "No", "search", "query", "provided">>

\* variant: the indicators are looked for in the message as written
AdvancedAgent_requires_tool_call_exact(message) ==
    \E indicator \in tool_indicators : Contains(message, indicator)
\* _requires_tool_call(message)
AdvancedAgent_requires_tool_call(message) ==
    \E indicator \in tool_indicators : Contains(upper(message), indicator)
\* _process_tool_calls(message): the first registered tool that the message
\* names is executed and its result is put after the message
AdvancedAgent_process_tool_calls(message, registered) ==
    LET named == {t \in registered : Contains(upper(message), Upper(t))}
    IN IF named = {} THEN message
       ELSE LET t == CHOOSE t \in named : TRUE
            IN message \o <<"\n\n", "Tool", "Result:">> \o execute(t)
\* f"Error generating response: {str(e)}"
ErrorReply == <<"Error", "generating", "response:", "e">>

\* add_tool(tool)
AdvancedAgent_add_tool(t) ==
    /\ kind \in {"simple", "file"}
    /\ tools' = tools \cup {t}
    /\ op' = Op("add_tool", NoMsg, "none", FALSE)
    /\ UNCHANGED <<kind, N, simple, messages, file, added, pure, nadds, nfaults>>

\* remove_tool(tool_name)
AdvancedAgent_remove_tool(t) ==
    /\ kind \in {"simple", "file"}
    /\ tools' = tools \ {t}
    /\ op' = Op("remove_tool", NoMsg, "none", FALSE)
    /\ UNCHANGED <<kind, N, simple, messages, file, added, pure, nadds, nfaults>>

\* AdvancedAgent.chat(user_input)
AdvancedAgent_chat(u, out, w1, w2) ==
    /\ kind \in {"simple", "file"}
    /\ w1 \in BackendOutcomes
    /\ w2 \in BackendOutcomes
    /\ nadds + 2 <= MaxAdds
    /\ LET user == Msg("user", u)
           a1 == Memory_add_message(messages, file, user, w1)
           sent == a1.messages
           assistant_message ==
               IF enable_tools /\ AdvancedAgent_requires_tool_call(out.reply)
               THEN AdvancedAgent_process_tool_calls(out.reply, tools)
               ELSE out.reply
           a2 == Memory_add_message(a1.messages, a1.file,
                                    Msg("assistant", assistant_message), w2)
       IN IF out.status = "ok"
          THEN /\ messages' = a2.messages
               /\ file' = a2.file
               /\ added' = IF pure
                           THEN added \o <<user, Msg("assistant", assistant_message)>>
                           ELSE <<>>
               /\ nadds' = nadds + 2
               /\ op' = [Op("chat", user, w2, FALSE) EXCEPT
                           !.model = "ok", !.sent = sent, !.reply = out.reply,
                           !.ret = assistant_message, !.before = Len(messages)]
               /\ Env(<<w1, w2>>)
          ELSE /\ messages' = a1.messages
               /\ file' = a1.file
               /\ added' = IF pure THEN Append(added, user) ELSE <<>>
               /\ nadds' = nadds + 1
               /\ op' = [Op("chat", user, w1, FALSE) EXCEPT
                           !.model = "error", !.sent = sent, !.ret = ErrorReply,
                           !.before = Len(messages)]
               /\ w2 \in {"ok", "none"}
               /\ Env(<<w1>>)
    /\ UNCHANGED <<kind, N, simple, tools, pure>>

\* variant: a failed model call takes the user message back out of the list
TemplateAgent_chat_rollback(u, out, w) ==
    /\ kind = "template"
    /\ nadds + 2 <= MaxAdds
    /\ LET user == Msg("user", u)
           m1 == TemplateAgent_truncate_memory(Append(messages, user), N)
           m2 == TemplateAgent_truncate_memory(
                     Append(m1, Msg("assistant", out.reply)), N)
           s == TemplateAgent_save(file, m2, w)
       IN IF out.status = "ok"
          THEN /\ messages' = m2
               /\ file' = s.file
               /\ added' = IF pure
                           THEN added \o <<user, Msg("assistant", out.reply)>>
                           ELSE <<>>
               /\ nadds' = nadds + 2
               /\ op' = [Op("chat", user, w, s.raised) EXCEPT
                           !.model = "ok", !.sent = m1, !.reply = out.reply,
                           !.ret = out.reply, !.before = Len(messages)]
               /\ Env(<<w>>)
          ELSE /\ messages' = messages
               /\ file' = file
               /\ added' = IF pure THEN Append(added, user) ELSE <<>>
               /\ nadds' = nadds + 1
               /\ op' = [Op("chat", user, "none", FALSE) EXCEPT
                           !.model = "error", !.sent = m1, !.ret = ErrorReply,
                           !.before = Len(messages)]
               /\ w = "ok"
               /\ nfaults' = nfaults
    /\ UNCHANGED <<kind, N, simple, tools, pure>>

\* TemplateAgent.chat(user_input)
TemplateAgent_chat(u, out, w) ==
    /\ kind = "template"
    /\ nadds + 2 <= MaxAdds
    /\ LET user == Msg("user", u)
           m1 == TemplateAgent_truncate_memory(Append(messages, user), N)
           m2 == TemplateAgent_truncate_memory(
                     Append(m1, Msg("assistant", out.reply)), N)
           s == TemplateAgent_save(file, m2, w)
       IN IF out.status = "ok"
          THEN /\ messages' = m2
               /\ file' = s.file
               /\ added' = IF pure
                           THEN added \o <<user, Msg("assistant", out.reply)>>
                           ELSE <<>>
               /\ nadds' = nadds + 2
               /\ op' = [Op("chat", user, w, s.raised) EXCEPT
                           !.model = "ok", !.sent = m1, !.reply = out.reply,
                           !.ret = out.reply, !.before = Len(messages)]
               /\ Env(<<w>>)
          ELSE /\ messages' = m1
               /\ file' = file
               /\ added' = IF pure THEN Append(added, user) ELSE <<>>
               /\ nadds' = nadds + 1
               /\ op' = [Op("chat", user, "none", FALSE) EXCEPT
                           !.model = "error", !.sent = m1, !.ret = ErrorReply,
                           !.before = Len(messages)]
               /\ w = "ok"
               /\ nfaults' = nfaults
    /\ UNCHANGED <<kind, N, simple, tools, pure>>

\* agents that are constructed, given tools and talked to
NextChat ==
    \/ \E w \in WriteOutcomes \cup {"none"} : AdvancedAgent_init(w)
    \/ TemplateAgent_init
    \/ \E t \in ToolNames : AdvancedAgent_add_tool(t)
    \/ \E t \in ToolNames : AdvancedAgent_remove_tool(t)
    \/ \E u \in UserInputs, out \in ModelOutcomes, w1, w2 \in WriteOutcomes \cup {"none"} :
           AdvancedAgent_chat(u, out, w1, w2)
    \/ \E u \in UserInputs, out \in ModelOutcomes, w \in WriteOutcomes :
           TemplateAgent_chat(u, out, w)

SpecChat == Init /\ [][NextChat]_vars

\* a TemplateAgent that is talked to, given messages, cleared and restarted
NextTemplate ==
    \/ TemplateAgent_init
    \/ \E m \in Messages : TemplateAgent_add_message(m)
    \/ \E u \in UserInputs, out \in ModelOutcomes, w \in WriteOutcomes :
           TemplateAgent_chat(u, out, w)
    \/ \E w \in WriteOutcomes : TemplateAgent_clear_memory(w)
    \/ TemplateAgent_load_memory

InitTemplate == Init /\ kind = "template"

SpecTemplate == InitTemplate /\ [][NextTemplate]_vars

\* ----------------------------------------------------------- SimpleAgent
\* basic_agent.py: a list without capacity, saved and loaded on request
\* save_memory(filename): [file, raised]; nothing catches a failing open / dump
SimpleAgent_save(f, msgs, w) == [file |-> FileWrite(f, msgs, w), raised |-> w # "ok"]
\* load_memory(filename): [messages, raised]; only FileNotFoundError is caught
SimpleAgent_load(f, msgs) ==
    CASE f.st = "ok" -> [messages |-> json_load(f.data), raised |-> FALSE]
      [] f.st = "missing" -> [messages |-> msgs, raised |-> FALSE]
      [] OTHER -> [messages |-> msgs, raised |-> TRUE]

\* SimpleAgent(system_prompt); N is not used by this class
InitBasic ==
    /\ kind = "basic"
    /\ N = 1
    /\ file \in InitFiles
    /\ messages = <<SysMsg>>
    /\ added = <<SysMsg>>
    /\ pure = TRUE
    /\ nadds = 0
    /\ nfaults = 0
    /\ tools = {}
    /\ simple = <<>>
    /\ op = Op("init", NoMsg, "none", FALSE)

\* SimpleAgent.chat(user_input)
SimpleAgent_chat(u, out) ==
    /\ kind = "basic"
    /\ nadds + 2 <= MaxAdds
    /\ LET user == Msg("user", u)
           m1 == Append(messages, user)
       IN IF out.status = "ok"
          THEN /\ messages' = Append(m1, Msg("assistant", out.reply))
               /\ added' = IF pure THEN added \o <<user, Msg("assistant", out.reply)>>
                           ELSE <<>>
               /\ nadds' = nadds + 2
               /\ op' = [Op("chat", user, "none", FALSE) EXCEPT
                           !.model = "ok", !.sent = m1, !.reply = out.reply,
                           !.ret = out.reply, !.before = Len(messages)]
          ELSE /\ messages' = m1
               /\ added' = IF pure THEN Append(added, user) ELSE <<>>
               /\ nadds' = nadds + 1
               /\ op' = [Op("chat", user, "none", FALSE) EXCEPT
                           !.model = "error", !.sent = m1, !.ret = <<"Error:", "e">>,
                           !.before = Len(messages)]
    /\ UNCHANGED <<kind, N, simple, tools, file, pure, nfaults>>

SimpleAgent_save_memory(w) ==
    /\ kind = "basic"
    /\ LET s == SimpleAgent_save(file, messages, w)
       IN /\ file' = s.file
          /\ op' = Op("save_memory", NoMsg, w, s.raised)
    /\ UNCHANGED <<kind, N, simple, tools, messages, added, pure, nadds>>
    /\ Env(<<w>>)

SimpleAgent_load_memory ==
    /\ kind = "basic"
    /\ LET l == SimpleAgent_load(file, messages)
       IN /\ messages' = l.messages
          /\ op' = [Op("load_memory", NoMsg, "none", l.raised) EXCEPT
                      !.before = Len(messages)]
    /\ added' = IF file.st = "ok" THEN <<>> ELSE added
    /\ pure' = IF file.st = "ok" THEN messages' = <<>> ELSE pure
    /\ UNCHANGED <<kind, N, simple, tools, file, nadds, nfaults>>

NextBasic ==
    \/ \E u \in UserInputs, out \in ModelOutcomes : SimpleAgent_chat(u, out)
    \/ \E w \in WriteOutcomes : SimpleAgent_save_memory(w)
    \/ SimpleAgent_load_memory

SpecBasic == InitBasic /\ [][NextBasic]_vars

\* ------------------------------- a SimpleMemory next to a FileMemory
\* SimpleMemory(N) and FileMemory(filename, N) on a file that does not exist
InitPair ==
    /\ kind = "pair"
    /\ N \in 1..MaxN
    /\ file = MissingFile
    /\ messages = FileMemory_load(file, <<>>).messages
    /\ simple = <<>>
    /\ added = <<>>
    /\ pure = TRUE
    /\ nadds = 0
    /\ nfaults = 0
    /\ tools = {}
    /\ op = Op("init", NoMsg, "none", FALSE)

\* variant: FileMemory.clear() empties the list only when the write went through
Pair_clear_if_written(w) ==
    /\ kind = "pair"
    /\ LET s == FileMemory_save(file, <<>>, w)
       IN /\ messages' = IF w = "ok" THEN <<>> ELSE messages
          /\ file' = s.file
          /\ op' = Op("clear", NoMsg, w, s.raised)
    /\ simple' = <<>>
    /\ added' = <<>>
    /\ UNCHANGED <<kind, N, tools, pure, nadds>>
    /\ Env(<<w>>)
\* both objects: clear()
Pair_clear(w) ==
    /\ kind = "pair"
    /\ LET s == FileMemory_save(file, <<>>, w)
       IN /\ messages' = <<>>
          /\ file' = s.file
          /\ op' = Op("clear", NoMsg, w, s.raised)
    /\ simple' = <<>>
    /\ added' = <<>>
    /\ UNCHANGED <<kind, N, tools, pure, nadds>>
    /\ Env(<<w>>)

\* both objects: add_message(role, content)
Pair_add_message(m, w) ==
    /\ kind = "pair"
    /\ nadds < MaxAdds
    /\ LET msgs == BaseMemory_truncate_messages(Append(messages, m), N)
           s == FileMemory_save(file, msgs, w)
       IN /\ messages' = msgs
          /\ file' = s.file
          /\ op' = Op("add_message", m, w, s.raised)
    /\ simple' = BaseMemory_truncate_messages(Append(simple, m), N)
    /\ added' = Append(added, m)
    /\ nadds' = nadds + 1
    /\ UNCHANGED <<kind, N, tools, pure>>
    /\ Env(<<w>>)

\* both objects: save() (a no-op for SimpleMemory)
Pair_save(w) ==
    /\ kind = "pair"
    /\ LET s == FileMemory_save(file, messages, w)
       IN /\ file' = s.file
          /\ op' = Op("save", NoMsg, w, s.raised)
    /\ UNCHANGED <<kind, N, simple, tools, messages, added, pure, nadds>>
    /\ Env(<<w>>)

NextPair ==
    \/ \E m \in Messages, w \in WriteOutcomes : Pair_add_message(m, w)
    \/ \E w \in WriteOutcomes : Pair_clear(w)
    \/ \E w \in WriteOutcomes : Pair_save(w)

SpecPair == InitPair /\ [][NextPair]_vars

\* ------------------------------------------- _truncate_messages by itself
\* the longest list handed to _truncate_messages
MaxInput == MaxN + 2
\* the lists of at most n messages
RECURSIVE Lists(_)
Lists(n) ==
    IF n = 0 THEN {<<>>}
    ELSE LET shorter == Lists(n - 1)
         IN shorter \cup {Append(l, m) : l \in {x \in shorter : Len(x) = n - 1},
                                         m \in Messages}

\* any list, any max_messages
InitTruncate ==
    /\ kind = "function"
    /\ N \in 1..MaxN
    /\ messages \in Lists(MaxInput)
    /\ file = MissingFile
    /\ added = <<>>
    /\ pure = FALSE
    /\ nadds = 0
    /\ nfaults = 0
    /\ tools = {}
    /\ simple = <<>>
    /\ op = Op("init", NoMsg, "none", FALSE)

\* messages = self._truncate_messages(messages); op.sent is the argument list
\* as it is after the call (the code only reads and slices it)
BaseMemory_truncate_messages_call ==
    /\ kind = "function"
    /\ Len(messages) <= MaxInput
    /\ messages' = BaseMemory_truncate_messages(messages, N)
    /\ op' = [Op("truncate", NoMsg, "none", FALSE) EXCEPT
                !.before = Len(messages), !.sent = messages]
    /\ UNCHANGED <<kind, N, simple, tools, file, added, pure, nadds, nfaults>>

NextTruncate == BaseMemory_truncate_messages_call

SpecTruncate == InitTruncate /\ [][NextTruncate]_vars

TypeOK ==
    /\ kind \in Kinds \cup {"basic", "function", "pair"}
    /\ N \in 1..MaxN
    /\ nadds \in 0..MaxAdds
    /\ nfaults \in 0..MaxFaults
    /\ tools \subseteq ToolNames

\* ================================================================ claims
IsMemory == kind \in {"simple", "file"}
NoSystemIn(s) == \A i \in 1..Len(s) : s[i].role # "system"
\* the step is an add_message call
AddStep == nadds' = nadds + 1

\* C1: SimpleMemory / FileMemory, any N >= 1, log grown from empty by
\* add_message calls: after every add_message, len(get_messages()) <= N.
C1_LengthAtMostN ==
    (IsMemory /\ pure /\ op.name = "add_message") => Len(messages) <= N

\* C2: when the first message added to an empty SimpleMemory / FileMemory log
\* is a system message, it is get_messages()[0] after every later add_message
\* (until the log is cleared or reloaded).
C2_FirstSystemStays ==
    (IsMemory /\ pure /\ Len(added) >= 1 /\ added[1].role = "system")
        => (Len(messages) >= 1 /\ messages[1] = added[1])
C2_Witness ==
    /\ IsMemory /\ pure /\ N = 2 /\ Len(added) = MaxAdds
    /\ added[1] = Msg("system", <<"x">>)
    /\ added[2] = Msg("system", SystemPrompt)
    /\ op.name = "add_message"

\* C3: when an add_message on SimpleMemory / FileMemory makes the log longer
\* than N and its first message is a system message, the retained log is that
\* first message followed by the most recent N-1 messages, in order (stated
\* for logs grown from empty, where the log held at most N messages so far).
C3_SystemPlusRecent ==
    [][(IsMemory /\ pure /\ AddStep /\ Len(messages) <= N /\ Len(messages) + 1 > N
           /\ Append(messages, op'.msg)[1].role = "system")
        => messages' = <<Append(messages, op'.msg)[1]>>
                         \o Recent(Append(messages, op'.msg), N - 1)]_vars

\* C4: SimpleMemory / FileMemory, any N >= 1, log grown from empty by k
\* add_message calls and holding no system message: the log is the last
\* min(k, N) added messages, in order.
C4_SlidingWindow ==
    (IsMemory /\ pure /\ NoSystemIn(messages)) => messages = Recent(added, N)
C4_Witness ==
    /\ IsMemory /\ pure /\ NoSystemIn(messages)
    /\ N = 2 /\ Len(added) = 3
    /\ messages = <<Msg("assistant", <<"x">>), Msg("user", <<"x">>)>>

\* C5: TemplateAgent with N >= 2 whose log started as [system message]: after
\* k add_message calls the log has min(k+1, N) messages, the first is the
\* system message and the others are the most recently added ones, in order.
C5_TemplateWindow ==
    (kind = "template" /\ pure /\ N >= 2 /\ Len(added) >= 1 /\ added[1].role = "system")
        => /\ Len(messages) = Min(Len(added), N)
           /\ messages[1] = added[1]
           /\ Tail(messages) = Recent(Tail(added), Min(Len(added), N) - 1)
C5_Witness ==
    /\ kind = "template" /\ pure /\ N = 3 /\ Len(added) = MaxAdds + 1
    /\ Len(messages) = 3
    /\ messages[2] # messages[3]

C7_ClearMemory ==
    op.name = "clear_memory" => messages = <<Msg("system", SystemPrompt)>>
C7_Witness ==
    /\ op.name = "clear_memory" /\ IsMemory /\ N = 1 /\ nadds >= 2

\* C8: FileMemory: a load() that directly follows a successful save() leaves
\* the log exactly as it was when saved (length, order, role, content).
C8_RoundTrip ==
    [][(kind = "file" /\ op.name = "save" /\ op.w = "ok" /\ op'.name = "load")
        => messages' = messages]_vars
C8_Witness ==
    /\ kind = "file" /\ op.name = "load" /\ op.afterSave
    /\ Len(messages) >= 2 /\ messages[1].role # messages[2].role

\* C9: FileMemory.load (and the constructor) on a missing or corrupt file does
\* not raise and leaves the log empty.
C9_LoadFailsSoft ==
    (kind = "file" /\ op.name \in {"load", "init"} /\ file.st # "ok")
        => (~op.raised /\ messages = <<>>)
C9_Witness ==
    /\ kind = "file" /\ op.name = "load" /\ file.st = "corrupt" /\ nadds >= 1

\* C10: when the file write fails, FileMemory.save / add_message / clear and
\* TemplateAgent.save_memory do not raise and leave the in-memory log as a
\* successful write would; add_message calls after a failure still succeed.
C10_Expected ==
    CASE op'.name = "add_message" -> BaseMemory_truncate_messages(Append(messages, op'.msg), N)
      [] op'.name = "clear" -> <<>>
      [] OTHER -> messages
C10_SaveFailureIsSoft ==
    [][/\ (nfaults' > nfaults /\ op'.name \in {"add_message", "clear", "save", "save_memory"})
          => (~op'.raised /\ messages' = C10_Expected)
       /\ (nfaults > 0 /\ AddStep)
          => (~op'.raised /\ Last(messages') = op'.msg)]_vars
C10_Witness ==
    /\ kind = "file" /\ nfaults > 0 /\ op.name = "add_message" /\ op.w = "ok"
    /\ file.st = "ok" /\ Len(messages) >= 2

\* C11 (as claimed): a FileMemory.load that fails (missing or corrupt file),
\* also through AdvancedAgent.load_state, leaves the in-memory log as it was.
C11_FailedLoadKeepsLog ==
    [][(kind = "file" /\ op'.name \in {"load", "load_state"} /\ file.st # "ok")
        => messages' = messages]_vars
\* C11 (amended): such a failed load does not raise, leaves the file alone and
\* resets the in-memory log to the empty list, whatever it held before.
C11_FailedLoadResetsLog ==
    [][(kind = "file" /\ op'.name \in {"load", "load_state"} /\ file.st # "ok")
        => (~op'.raised /\ file' = file /\ messages' = <<>>)]_vars
C11_Witness ==
    /\ kind = "file" /\ op.name = "load_state" /\ file.st # "ok"
    /\ op.before >= 2 /\ messages = <<>>

\* C12: add_message with a role outside {system, user, assistant} fails with
\* an invalid-role error and leaves the log (and FileMemory's file) unchanged.
C12_InvalidRoleRejected ==
    [][(AddStep /\ op'.msg.role \notin ValidRoles)
        => (op'.raised /\ messages' = messages /\ file' = file)]_vars

\* the number of positions of s that hold m
Count(s, m) == Cardinality({i \in 1..Len(s) : s[i] = m})
\* C13: in every log grown by add_message calls (SimpleMemory, FileMemory,
\* TemplateAgent; any roles, any N >= 1) each system message that was added is
\* still in the log, sits at index 0 and occurs no more often than it was added.
C13_SystemPinnedOnce ==
    pure => \A i \in 1..Len(added) :
               added[i].role = "system"
                   => /\ Len(messages) >= 1
                      /\ messages[1] = added[i]
                      /\ Count(messages, added[i]) <= Count(added, added[i])

\* C14: with N = 1 and a system message as the first message, after every
\* later add_message (SimpleMemory, FileMemory, TemplateAgent) the log holds
\* exactly that one system message.
C14_CapacityOneKeepsSystemOnly ==
    (pure /\ N = 1 /\ Len(added) >= 2 /\ added[1].role = "system")
        => messages = <<added[1]>>

\* C15: TemplateAgent whose log does not start with a system message: an
\* add_message that overflows N leaves exactly the most recent N messages.
C15_TemplateSlidingWindow ==
    [][(kind = "template" /\ AddStep /\ Len(messages) >= 1
           /\ messages[1].role # "system" /\ Len(messages) + 1 > N)
        => messages' = Recent(Append(messages, op'.msg), N)]_vars

\* C16: nothing a caller does through the value returned by get_messages /
\* get_conversation_history (changing the returned list, or the role or
\* content of a returned message) changes what a later get_messages returns.
C16_DefensiveCopy ==
    [][op'.name \in {"caller_list", "caller_message"} => messages' = messages]_vars

\* C17: a TemplateAgent constructed while its memory file is missing or
\* unreadable has the log [system prompt], and the constructor does not raise.
C17_ConstructWithoutFile ==
    (kind = "template" /\ op.name = "init" /\ file.st # "ok")
        => (messages = <<SysMsg>> /\ ~op.raised)
C17_Witness ==
    /\ kind = "template" /\ op.name = "init" /\ file.st = "corrupt"
    /\ nadds >= 1 /\ messages = <<SysMsg>>

\* C18: a successful TemplateAgent.load_memory replaces the log by the file's
\* list: same length, same messages in the same order, nothing of the previous
\* log kept.
C18_LoadReplacesLog ==
    [][(kind = "template" /\ op'.name = "load_memory" /\ file.st = "ok")
        => (~op'.raised /\ json_dump(messages') = file.data)]_vars
C18_Witness ==
    /\ kind = "template" /\ op.name = "load_memory" /\ file.st = "ok"
    /\ op.before > Len(messages) /\ Len(messages) >= 2
    /\ json_dump(messages) = file.data

\* a chat call whose model call succeeded
ChatOk == op'.name = "chat" /\ op'.model = "ok"
\* the request ended with the user message, the log now ends with an assistant
\* message of text t, and below capacity the log grew by exactly these two
ChatAppends(t) ==
    /\ Len(op'.sent) >= 1 /\ Last(op'.sent) = op'.msg
    /\ op'.msg.role = "user"
    /\ Len(messages') >= 1 /\ Last(messages') = Msg("assistant", t)
    /\ Len(messages) + 2 <= N
           => messages' = messages \o <<op'.msg, Msg("assistant", t)>>
\* the reply holds a tool indicator and the name of a registered tool
NamesRegisteredTool(reply) ==
    /\ \E i \in 1..Len(reply) : Upper(reply[i]) \in tool_indicators
    /\ \E i \in 1..Len(reply), t \in tools : Upper(reply[i]) = Upper(t)

C20_BasicPersistenceIsSoft ==
    [][(kind = "basic"
          /\ \/ op'.name = "load_memory" /\ file.st # "ok"
             \/ op'.name = "save_memory" /\ op'.w # "ok")
        => (~op'.raised /\ messages' = messages)]_vars

RECURSIVE IsSubseq(_, _)
\* s can be obtained from t by deleting elements
IsSubseq(s, t) ==
    IF s = <<>> THEN TRUE
    ELSE IF t = <<>> THEN FALSE
    ELSE IF Head(s) = Head(t) THEN IsSubseq(Tail(s), Tail(t))
    ELSE IsSubseq(s, Tail(t))
IsSuffix(s, t) == Len(s) <= Len(t) /\ SubSeq(t, Len(t) - Len(s) + 1, Len(t)) = s
\* the log without its pinned leading system message
AfterPinned(s) == IF s # <<>> /\ s[1].role = "system" THEN Tail(s) ELSE s

\* C21: SimpleMemory / FileMemory, N >= 1: the log is a subsequence of the
\* messages added since the last clear, no message occurs more often than it
\* was added, and the part after a pinned leading system message is a
\* contiguous suffix of the added sequence.
C21_KeepsConversationOrder ==
    (IsMemory /\ pure)
        => /\ IsSubseq(messages, added)
           /\ \A i \in 1..Len(messages) :
                  Count(messages, messages[i]) <= Count(added, messages[i])
           /\ IsSuffix(AfterPinned(messages), added)

\* C22: FileMemory, while file writes succeed: after every add_message and
\* every clear the memory file holds the in-memory log (after truncation), and
\* a FileMemory constructed on that file starts with the same log.
C22_AutoSave ==
    [][(kind = "file" /\ op'.name \in {"add_message", "clear"} /\ op'.w = "ok")
        => /\ file'.st = "ok"
           /\ file'.data = json_dump(messages')
           /\ FileMemory_load(file', <<>>).messages = messages']_vars
C22_Witness ==
    /\ kind = "file" /\ op.name = "add_message" /\ op.w = "ok"
    /\ pure /\ Len(added) > Len(messages) /\ Len(messages) >= 2
    /\ file.data = json_dump(messages)

\* C23: _truncate_messages is idempotent for every list and every N >= 1
\* (truncating a truncated list returns it unchanged) and leaves its argument
\* as it was.
C23_TruncateIdempotent ==
    [][op'.name = "truncate"
        => /\ op'.sent = messages
           /\ BaseMemory_truncate_messages(messages', N) = messages']_vars

\* s without its i-th element
RemoveAt(s, i) == SubSeq(s, 1, i - 1) \o SubSeq(s, i + 1, Len(s))

\* C24: SimpleMemory / FileMemory, N >= 2, log of length L <= N: add_message
\* leaves min(L+1, N) messages; for L < N the log is the old one with the new
\* message at the end; for L = N exactly one message, the oldest that is not a
\* leading system message, is removed.
C24_EvictsOneOnOverflow ==
    [][(IsMemory /\ op'.name = "add_message" /\ N >= 2 /\ Len(messages) <= N)
        => LET L == Len(messages)
               new == Append(messages, op'.msg)
           IN /\ Len(messages') = Min(L + 1, N)
              /\ L < N => messages' = new
              /\ L = N => messages' =
                    RemoveAt(new, IF messages[1].role = "system" THEN 2 ELSE 1)]_vars
C24_Witness ==
    /\ IsMemory /\ op.name = "add_message" /\ N >= 2
    /\ pure /\ Len(added) > N /\ Len(messages) = N
    /\ messages[1].role = "system" /\ Last(messages) = op.msg

\* C25: when the model call fails inside AdvancedAgent.chat / TemplateAgent.chat
\* the call does not raise and returns an error string; the user message added
\* at the start stays in the log and no assistant message is added, so the log
\* ends with a user message that has no reply.
C25_FailedChatKeepsUserMessage ==
    [][(op'.name = "chat" /\ op'.model = "error")
        => /\ ~op'.raised
           /\ op'.ret = ErrorReply /\ op'.ret \notin Replies
           /\ op'.msg.role = "user"
           /\ Len(messages') >= 1 /\ Last(messages') = op'.msg
           /\ Count(messages', op'.msg) >= 1
           /\ Len(messages) + 1 <= N => messages' = Append(messages, op'.msg)]_vars
\* two failed calls in a row: consecutive user messages at the end of the log
C25_Witness ==
    /\ op.name = "chat" /\ op.model = "error" /\ op.ret = ErrorReply
    /\ Len(messages) >= 3
    /\ messages[Len(messages)].role = "user"
    /\ messages[Len(messages) - 1].role = "user"

\* C26: constructing an AdvancedAgent never leaves an empty log, and on the
\* file backend it adds the system prompt only when the loaded log is empty: a
\* new agent on a file that holds a previous agent's log has exactly that log.
C26_RestartKeepsLog ==
    [][(IsMemory /\ op'.name = "agent_init")
        => /\ messages' # <<>>
           /\ (kind = "file" /\ file.st = "ok" /\ file.data # <<>>)
                 => /\ json_dump(messages') = file.data
                    /\ file.data = json_dump(messages) => messages' = messages
           /\ (kind = "simple" \/ file.st # "ok" \/ file.data = <<>>)
                 => messages' = <<SysMsg>>]_vars
C26_Witness ==
    /\ kind = "file" /\ op.name = "agent_init" /\ nadds >= 2
    /\ Len(messages) >= 2 /\ messages[1] = SysMsg /\ Count(messages, SysMsg) = 1
    /\ file.st = "ok" /\ file.data = json_dump(messages)

\* C27: a SimpleMemory and a FileMemory started empty with the same N and
\* given the same add_message / clear / save calls return the same
\* get_messages result after every step, whether the file writes succeed or not.
C27_SameLog ==
    kind = "pair" => messages = simple
C27_Witness ==
    /\ kind = "pair" /\ nfaults >= 1 /\ op.name = "add_message" /\ op.w # "ok"
    /\ Len(added) > Len(messages) /\ Len(messages) >= 2 /\ messages = simple

\* C28: a FileMemory constructed or reloaded from a file holding M > N messages
\* has all M messages, and keeps them until add_message is called; the first
\* add_message after that (N >= 2) leaves exactly N messages: the loaded first
\* message if it is a system message, plus the most recent ones.
C28_LoadIgnoresCapacity ==
    [][((kind = "file" /\ op'.name \in {"load", "load_state"} /\ file.st = "ok")
           => (messages' = json_load(file.data) /\ Len(messages') = Len(file.data)))
       /\ ((kind = "file" /\ op'.name = "save") => messages' = messages)
       /\ ((kind = "file" /\ op'.name = "add_message" /\ N >= 2 /\ Len(messages) > N)
           => (/\ Len(messages') = N
               /\ messages' = IF messages[1].role = "system"
                               THEN <<messages[1]>>
                                      \o Recent(Append(messages, op'.msg), N - 1)
                               ELSE Recent(Append(messages, op'.msg), N)))]_vars
C28_Witness ==
    /\ kind = "file" /\ op.name = "add_message" /\ nadds = 1 /\ ~pure
    /\ N >= 2 /\ Len(messages) = N
    /\ messages[1] = OldLog[1] /\ messages[1].role = "system"
    /\ Last(messages) = op.msg

\* C29: TemplateAgent writes its memory file at the end of a successful chat
\* and in clear_memory: after each of them, when the write succeeds, the file
\* holds the in-memory log.  add_message and a chat whose model call failed
\* leave the file as it was, so the file can lag behind the log and a restart
\* then loads the older log.
C29_TemplateWrites ==
    [][kind = "template" =>
        /\ (op'.name \in {"chat", "clear_memory"} /\ op'.model # "error"
               /\ op'.w = "ok")
             => (file' = OkFile(messages') /\ json_load(file'.data) = messages')
        /\ (op'.name = "add_message" \/ (op'.name = "chat" /\ op'.model = "error"))
             => file' = file]_vars
\* a successful chat wrote the file, a later add_message left it behind
C29_Witness ==
    /\ kind = "template" /\ op.name = "add_message" /\ nadds = 3
    /\ file.st = "ok" /\ Len(file.data) >= 3
    /\ json_load(file.data) # messages
    /\ TemplateAgent_load(file, <<SysMsg>>).messages = json_load(file.data)
    /\ Last(json_load(file.data)).role = "assistant"
====
